---- MODULE Spec2Model ----
(***************************************************************************)
(* Model of getLevelOneGymDashboard/lambda_function.py: lambda_handler,   *)
(* the handler that receives an API-Gateway event carrying a multipart     *)
(* upload of a CSV of gym check-ins and answers with aggregate statistics. *)
(*                                                                         *)
(* One invocation is modelled.  The handler's local namespace is the       *)
(* function `locals` (a name is in its domain once the code has assigned   *)
(* it), `pc` is the position in the handler and `response` the returned    *)
(* envelope.  Floating point values are modelled as exact fractions        *)
(* <<numerator, denominator>>; a missing value (NaN, NaT, None) of a       *)
(* computed column is the empty tuple, a missing CSV cell is "" for text   *)
(* and NaN for numbers.                                                    *)
(***************************************************************************)
EXTENDS Integers, Sequences, FiniteSets, TLC

VARIABLES event, pc, locals, response

vars == <<event, pc, locals, response>>

(***************************************************************************)
(* Bounds of the model.                                                    *)
(***************************************************************************)
MaxRows == 3

(***************************************************************************)
(* Values.                                                                 *)
(***************************************************************************)
\* a missing numeric CSV cell as pandas.read_csv loads it
NaN == 0
\* a missing computed value: NaN of a float column, NaT of a datetime column
NA == <<>>

RequiredColumns == <<"clientId", "status", "startDate", "endDate", "name">>

SeqToSet(s) == {s[i] : i \in 1..Len(s)}

SeqsUpTo(S, n) == UNION {[1..k -> S] : k \in 0..n}

(***************************************************************************)
(* Exact fractions standing for the floats of the code.                    *)
(***************************************************************************)
Abs(x) == IF x < 0 THEN -x ELSE x

RECURSIVE GCD(_, _)
GCD(a, b) == IF b = 0 THEN a ELSE GCD(b, a % b)

Frac(n, d) == LET g == GCD(Abs(n), d) IN <<n \div g, d \div g>>

FracAdd(a, b) == Frac(a[1] * b[2] + b[1] * a[2], a[2] * b[2])

RECURSIVE FracSum(_)
FracSum(s) == IF s = <<>> THEN <<0, 1>> ELSE FracAdd(Head(s), FracSum(Tail(s)))

NotNA(x) == x # NA

(***************************************************************************)
(* Timestamps.  A parsed instant is <<m>>, m the minutes elapsed since     *)
(* 2024-01-01T00:00:00Z (a Monday); NaT is NA.                             *)
(***************************************************************************)
IsoTexts == {"2024-01-01T02:00:00Z", "2024-01-01T10:00:00Z", "2024-01-01T10:30:00Z",
             "2024-01-02T10:00:00Z", "2024-01-02T10:45:00Z"}

IsoMinutes(text) ==
    CASE text = "2024-01-01T02:00:00Z" -> 120
      [] text = "2024-01-01T10:00:00Z" -> 600
      [] text = "2024-01-01T10:30:00Z" -> 630
      [] text = "2024-01-02T10:00:00Z" -> 2040
      [] text = "2024-01-02T10:45:00Z" -> 2085

\* a parse with errors='coerce': nothing raises
CanParse_coerce(text) == TRUE

\* pd.to_datetime(cell, utc=True) of one cell: a missing cell gives NaT, and a
\* text that is no timestamp raises (CanParse is false of it)
CanParse(text) == text = "" \/ text \in IsoTexts

to_datetime(text) == IF text \in IsoTexts THEN <<IsoMinutes(text)>> ELSE NA

\* .dt.tz_convert('America/Campo_Grande'): the wall clock of UTC-4
tz_convert(ts) == IF ts = NA THEN NA ELSE <<ts[1] - 240>>

\* (endDate - startDate).dt.total_seconds() / 60
duration_minutes(start, end) ==
    IF start = NA \/ end = NA THEN NA ELSE Frac(end[1] - start[1], 1)

DayNames == <<"Monday", "Tuesday", "Wednesday", "Thursday", "Friday", "Saturday", "Sunday">>

\* .dt.day_name() and .dt.hour of a localized instant (NaT gives a missing value)
day_name(ts) == IF ts = NA THEN "" ELSE DayNames[((ts[1] \div 1440) % 7) + 1]

hour(ts) == IF ts = NA THEN NA ELSE <<(ts[1] % 1440) \div 60>>

(***************************************************************************)
(* The uploaded tables: the DataFrame pd.read_csv builds from the file     *)
(* part.  A row maps each column of the table to its cell.                 *)
(***************************************************************************)
AllColumns == SeqToSet(RequiredColumns) \cup {"id"}

Row(c, n, s, sd, ed, i) ==
    [clientId |-> c, name |-> n, status |-> s, startDate |-> sd, endDate |-> ed, id |-> i]

Rows ==
    { Row(1, "A", "active",   "2024-01-01T10:00:00Z", "2024-01-01T10:30:00Z", 7),
      Row(1, "A", "active",   "2024-01-02T10:00:00Z", "2024-01-02T10:45:00Z", 8),
      Row(1, "A", "inactive", "2024-01-01T10:00:00Z", "2024-01-01T10:30:00Z", 7),
      Row(1, "B", "active",   "2024-01-01T10:00:00Z", "2024-01-01T10:30:00Z", 7),
      Row(2, "A", "active",   "2024-01-01T10:00:00Z", "2024-01-01T10:30:00Z", 7),
      Row(2, "A", "inactive", "2024-01-02T10:00:00Z", "2024-01-02T10:45:00Z", 8),
      Row(2, "B", "paused",   "2024-01-01T02:00:00Z", "2024-01-01T10:30:00Z", 7),
      Row(NaN, "A", "active", "2024-01-01T10:00:00Z", "2024-01-01T10:30:00Z", 7),
      Row(1, "",  "active",   "2024-01-01T10:00:00Z", "2024-01-01T10:30:00Z", 7),
      Row(1, "A", "",         "2024-01-02T10:00:00Z", "2024-01-02T10:45:00Z", 7),
      Row(1, "A", "active",   "2024-01-01T10:00:00Z", "2024-01-01T10:30:00Z", NaN),
      Row(1, "A", "active",   "",                     "2024-01-01T10:30:00Z", 7),
      Row(1, "A", "active",   "yesterday",            "2024-01-01T10:30:00Z", 7),
      Row(2, "A", "active",   "2024-01-01T10:00:00Z", "soon", 7),
      Row(2, "A", "inactive", "2024-01-02T10:00:00Z", "2024-01-01T10:30:00Z", 8),
      Row(2, "B", "active",   "2024-01-01T10:00:00Z", "", 7) }

Project(row, cols) == [c \in cols |-> row[c]]

Table(cols, rows) == [columns |-> cols, rows |-> [i \in 1..Len(rows) |-> Project(rows[i], cols)]]

ExampleRows ==
    << Row(1, "A", "active", "2024-01-01T10:00:00Z", "2024-01-01T10:30:00Z", 7),
       Row(1, "A", "active", "2024-01-02T10:00:00Z", "2024-01-02T10:45:00Z", 8) >>

SampleRowSeqs ==
    { <<>>, ExampleRows,
      << Row(1, "A", "active", "yesterday", "2024-01-01T10:30:00Z", 7) >> }

\* tables with every column the aggregation reads, over all row sequences
FullTables == {Table(AllColumns, rs) : rs \in SeqsUpTo(Rows, MaxRows)}

\* tables over every other set of columns, over the sample row sequences
PartialTables == {Table(cols, rs) : cols \in (SUBSET AllColumns) \ {AllColumns, {}}, rs \in SampleRowSeqs}

(***************************************************************************)
(* The events.                                                             *)
(***************************************************************************)
Multipart == "multipart/form-data; boundary=x"

HeaderNames == {"Content-Type", "content-type"}

HeaderValues == {"", Multipart, "application/json"}

Headers == UNION {[names -> HeaderValues] : names \in SUBSET HeaderNames}

FileDisposition == "form-data; name=\"file\"; filename=\"checkins.csv\""

FieldDisposition == "form-data; name=\"note\""

\* a part with no Content-Disposition header has disposition ""
CsvPart(table) == [disposition |-> FileDisposition, kind |-> "csv", table |-> table]

OtherPart(disposition, kind) ==
    [disposition |-> disposition, kind |-> kind, table |-> Table({}, <<>>)]

Body(decodable, parts) == [decodable |-> decodable, parts |-> parts]

SampleTables == {Table(AllColumns, rs) : rs \in SampleRowSeqs}
                   \cup {Table(SeqToSet(RequiredColumns), ExampleRows),
                         Table(AllColumns \ {"endDate"}, ExampleRows)}

SampleBodies ==
    { Body(FALSE, <<>>), Body(TRUE, <<>>),
      Body(TRUE, <<OtherPart(FieldDisposition, "text")>>),
      Body(TRUE, <<OtherPart("", "text")>>),
      Body(TRUE, <<OtherPart(FileDisposition, "malformed")>>),
      Body(TRUE, <<OtherPart(FileDisposition, "empty")>>) }
    \cup {Body(TRUE, <<CsvPart(t)>>) : t \in SampleTables}
    \cup {Body(TRUE, <<OtherPart(FieldDisposition, "text"), CsvPart(t)>>) : t \in SampleTables}
    \cup {Body(TRUE, <<OtherPart("", "text"), CsvPart(t)>>) : t \in SampleTables}
    \cup {Body(TRUE, <<OtherPart(FileDisposition, "malformed"), CsvPart(t)>>) : t \in SampleTables}

Event(method, headers, body) == [httpMethod |-> method, headers |-> headers, body |-> body]

Events ==
    {Event(m, h, b) : m \in {"POST", "GET"}, h \in Headers, b \in SampleBodies}
    \cup {Event("POST", [n \in {"Content-Type"} |-> Multipart], Body(TRUE, <<CsvPart(t)>>)) :
             t \in FullTables \cup PartialTables}


(***************************************************************************)
(* Helpers of the handler.                                                 *)
(***************************************************************************)
\* dict.get: None (modelled as "", which is falsy as None is) for an absent key
Get(d, key) == IF key \in DOMAIN d THEN d[key] ELSE ""

\* a handler that reads the 'Content-Type' key alone
Or_first_only(a, b) == a

\* Python's  a or b
Or(a, b) == IF a # "" THEN a ELSE b

Resp(code, message) == [statusCode |-> code, body |-> [message |-> message]]

NoResponse == Resp(0, <<>>)

InternalServerError(description) == Resp(500, <<"Internal server error: ", description>>)

Assign(ns, name, value) == (name :> value) @@ ns

\* 'file' in content_disposition, over the dispositions of the model
HasFile(disposition) == disposition \in {FileDisposition}

\* lines 34-41: the loop over the parts; the first part whose disposition
\* names a file is read with pd.read_csv and ends the loop
RECURSIVE FindFile(_)
FindFile(parts) ==
    IF parts = <<>> THEN [kind |-> "none", what |-> ""]
    ELSE IF Head(parts).disposition = ""
         THEN [kind |-> "raise", what |-> "'NoneType' object has no attribute 'decode'"]
    ELSE IF HasFile(Head(parts).disposition)
         THEN CASE Head(parts).kind = "csv" -> [kind |-> "df", what |-> ""]
                [] Head(parts).kind = "malformed" -> [kind |-> "ParserError", what |-> ""]
                [] OTHER -> [kind |-> "raise", what |-> "No columns to parse from file"]
    ELSE FindFile(Tail(parts))

RECURSIVE FilePart(_)
FilePart(parts) ==
    IF HasFile(Head(parts).disposition) THEN Head(parts) ELSE FilePart(Tail(parts))

\* a check that stops at the first absent column
missing_columns_first_only(required, columns) ==
    SubSeq(SelectSeq(required, LAMBDA col : col \notin columns), 1, 1)

\* line 52
missing_columns_of(required, columns) == SelectSeq(required, LAMBDA col : col \notin columns)

\* lines 60-61 raise when a cell of either column is no timestamp
DatesParse(df) ==
    \A i \in 1..Len(df.rows) : CanParse(df.rows[i].startDate) /\ CanParse(df.rows[i].endDate)

\* lines 60-64 on one row
ParseRow(row) ==
    LET start == tz_convert(to_datetime(row.startDate))
        end   == tz_convert(to_datetime(row.endDate))
    IN  [c \in DOMAIN row \cup {"duration_minutes"} |->
            CASE c = "startDate" -> start
              [] c = "endDate" -> end
              [] c = "duration_minutes" -> duration_minutes(start, end)
              [] OTHER -> row[c]]

(***************************************************************************)
(* Aggregations of pandas, as the handler uses them.                       *)
(***************************************************************************)
\* the lexicographic order of the texts that serve as grouping keys
TextOrder == <<"A", "B", "Friday", "Monday", "Saturday", "Sunday", "Thursday", "Tuesday", "Wednesday">>

TextRank(t) == CHOOSE i \in 1..Len(TextOrder) : TextOrder[i] = t

\* the order of the (clientId, name) keys and of the (day_of_week, hour_of_day) keys
ClientKeyLeq(a, b) == a[1] < b[1] \/ (a[1] = b[1] /\ TextRank(a[2]) <= TextRank(b[2]))

BucketKeyLeq(a, b) == TextRank(a[1]) < TextRank(b[1]) \/ (a[1] = b[1] /\ a[2] <= b[2])

\* the groups of a groupby come out sorted by their keys
RECURSIVE SortClientKeys(_)
SortClientKeys(S) ==
    IF S = {} THEN <<>>
    ELSE LET m == CHOOSE k \in S : \A o \in S : ClientKeyLeq(k, o)
         IN  <<m>> \o SortClientKeys(S \ {m})

RECURSIVE SortBucketKeys(_)
SortBucketKeys(S) ==
    IF S = {} THEN <<>>
    ELSE LET m == CHOOSE k \in S : \A o \in S : BucketKeyLeq(k, o)
         IN  <<m>> \o SortBucketKeys(S \ {m})

\* Series.mean(): the missing values are skipped, and none left gives NaN
Mean(s) ==
    LET present == SelectSeq(s, NotNA)
        total   == FracSum(present)
    IN  IF present = <<>> THEN NA ELSE Frac(total[1], total[2] * Len(present))

\* 'count': the number of non-missing cells
Count(s) == Len(SelectSeq(s, LAMBDA x : x # NaN))

MaxOf(S) == CHOOSE m \in S : \A o \in S : o <= m

\* 'max' of a datetime column: NaT is skipped
MaxDate(s) ==
    LET present == {s[i][1] : i \in {j \in 1..Len(s) : s[j] # NA}}
    IN  IF present = {} THEN NA ELSE <<MaxOf(present)>>

\* the aggregation 'first' in the place of 'last'
Last_as_first(s) ==
    LET present == SelectSeq(s, LAMBDA x : x # "")
    IN  IF present = <<>> THEN "" ELSE present[1]

\* 'last': the last non-missing cell of the group, None (here "") when all are missing
Last(s) ==
    LET present == SelectSeq(s, LAMBDA x : x # "")
    IN  IF present = <<>> THEN "" ELSE present[Len(present)]

Column(rows, col) == [i \in 1..Len(rows) |-> rows[i][col]]

\* groupby(['clientId', 'name']): rows with a missing key are dropped, groups sorted
ClientKeys(rows) ==
    SortClientKeys({k \in {<<rows[i].clientId, rows[i].name>> : i \in 1..Len(rows)} :
                 k[1] # NaN /\ k[2] # ""})

ClientGroup(rows, key) == SelectSeq(rows, LAMBDA r : <<r.clientId, r.name>> = key)

\* lines 67-73
summary_of(rows, key) ==
    LET g == ClientGroup(rows, key)
    IN  [clientId |-> key[1], name |-> key[2],
         id |-> MaxOf(SeqToSet(Column(g, "clientId"))),
         total_checkins |-> Count(Column(g, "id")),
         average_duration |-> Mean(Column(g, "duration_minutes")),
         last_start_date |-> MaxDate(Column(g, "startDate")),
         status |-> Last(Column(g, "status"))]

client_summary_of(rows) ==
    LET keys == ClientKeys(rows) IN [i \in 1..Len(keys) |-> summary_of(rows, keys[i])]

\* .count() in the place of .nunique(): every row of a client counts
nunique_clients_as_count(rows, s) ==
    Cardinality({j \in 1..Len(rows) : rows[j].status = s /\ rows[j].clientId # NaN})

\* lines 79-80: df[df['status'] == s]['clientId'].nunique()
nunique_clients(rows, s) ==
    Cardinality({rows[i].clientId : i \in {j \in 1..Len(rows) : rows[j].status = s}} \ {NaN})

\* lines 83-84 on one row
BucketRow(row) ==
    [c \in DOMAIN row \cup {"day_of_week", "hour_of_day"} |->
        CASE c = "day_of_week" -> day_name(row.startDate)
          [] c = "hour_of_day" -> hour(row.startDate)
          [] OTHER -> row[c]]

\* line 87: groupby(['day_of_week', 'hour_of_day']).size().reset_index(name='checkin_count')
BucketKeys(rows) ==
    SortBucketKeys({<<rows[i].day_of_week, rows[i].hour_of_day[1]>> :
                 i \in {j \in 1..Len(rows) : rows[j].day_of_week # "" /\ rows[j].hour_of_day # NA}})

\* the number of distinct clients of the group in the place of its size
bucket_size_as_nunique(rows, key) ==
    Cardinality({rows[i].clientId : i \in {j \in 1..Len(rows) :
        <<rows[j].day_of_week, rows[j].hour_of_day>> = <<key[1], <<key[2]>> >>}})

\* .size(): the number of rows of the group
bucket_size(rows, key) ==
    Len(SelectSeq(rows, LAMBDA r : <<r.day_of_week, r.hour_of_day>> = <<key[1], <<key[2]>> >>))

checkins_by_day_time_of(rows) ==
    LET keys == BucketKeys(rows)
    IN  [i \in 1..Len(keys) |->
            [day_of_week |-> keys[i][1], hour_of_day |-> keys[i][2],
             checkin_count |-> bucket_size(rows, keys[i])]]

\* the mean over all rows in the place of the mean of the groups' means
average_duration_overall_by_row(ns) == Mean(Column(ns.df.rows, "duration_minutes"))

\* line 90: client_summary['average_duration'].mean()
average_duration_overall_of(ns) == Mean(Column(ns.client_summary, "average_duration"))

\* line 93: client_summary['total_checkins'].mean()
average_total_checkins_overall_of(ns) ==
    Mean([i \in 1..Len(ns.client_summary) |-> Frac(ns.client_summary[i].total_checkins, 1)])


(***************************************************************************)
(* lambda_handler, step by step.                                           *)
(***************************************************************************)
Init ==
    /\ event \in Events
    /\ pc = "check_method"
    /\ locals = <<>>
    /\ response = NoResponse

Return(r) == /\ response' = r
             /\ pc' = "done"

\* lines 10-14
CheckMethod ==
    /\ pc = "check_method"
    /\ IF event.httpMethod # "POST"
       THEN Return(Resp(405, <<"Method Not Allowed">>))
       ELSE pc' = "content_type" /\ UNCHANGED response
    /\ UNCHANGED <<event, locals>>

\* lines 17-22
CheckContentType ==
    /\ pc = "content_type"
    /\ LET content_type == Or(Get(event.headers, "Content-Type"), Get(event.headers, "content-type"))
       IN  /\ locals' = Assign(locals, "content_type", content_type)
           /\ IF content_type = ""
              THEN Return(Resp(400, <<"Content-Type header is missing">>))
              ELSE pc' = "decode" /\ UNCHANGED response
    /\ UNCHANGED event

\* lines 25-28: base64.b64decode and decoder.MultipartDecoder raise on a body that
\* is no base64 text or no multipart data, and on a content type that is not multipart
DecodeBody ==
    /\ pc = "decode"
    /\ IF ~event.body.decodable
       THEN Return(InternalServerError("Incorrect padding")) /\ UNCHANGED locals
       ELSE IF locals.content_type # Multipart
       THEN Return(InternalServerError("Unexpected mimetype in content-type")) /\ UNCHANGED locals
       ELSE /\ locals' = Assign(locals, "multipart_data", event.body.parts)
            /\ pc' = "find_file"
            /\ UNCHANGED response
    /\ UNCHANGED event

\* lines 31-48
FindFilePart ==
    /\ pc = "find_file"
    /\ LET found == FindFile(locals.multipart_data)
       IN  CASE found.kind = "df" ->
                  /\ locals' = Assign(locals, "df", FilePart(locals.multipart_data).table)
                  /\ pc' = "check_columns"
                  /\ UNCHANGED response
             [] found.kind = "none" ->
                  /\ Return(Resp(400, <<"No CSV file found in the request">>))
                  /\ UNCHANGED locals
             [] found.kind = "ParserError" ->
                  /\ Return(Resp(400, <<"Error parsing CSV file. Please check the file format.">>))
                  /\ UNCHANGED locals
             [] found.kind = "raise" ->
                  /\ Return(InternalServerError(found.what))
                  /\ UNCHANGED locals
    /\ UNCHANGED event

\* lines 51-57
CheckColumns ==
    /\ pc = "check_columns"
    /\ LET missing_columns == missing_columns_of(RequiredColumns, locals.df.columns)
       IN  /\ locals' = Assign(locals, "missing_columns", missing_columns)
           /\ IF missing_columns # <<>>
              THEN Return(Resp(400, <<"Missing required columns: ", missing_columns>>))
              ELSE pc' = "parse_dates" /\ UNCHANGED response
    /\ UNCHANGED event

\* lines 60-64
ParseDates ==
    /\ pc = "parse_dates"
    /\ IF ~DatesParse(locals.df)
       THEN Return(InternalServerError("Unknown datetime string format")) /\ UNCHANGED locals
       ELSE /\ locals' = Assign(locals, "df",
                            [columns |-> locals.df.columns \cup {"duration_minutes"},
                             rows |-> [i \in 1..Len(locals.df.rows) |-> ParseRow(locals.df.rows[i])]])
            /\ pc' = "summarize"
            /\ UNCHANGED response
    /\ UNCHANGED event

\* lines 67-76: the named aggregation raises KeyError on a column the frame lacks
Summarize ==
    /\ pc = "summarize"
    /\ IF "id" \notin locals.df.columns
       THEN Return(InternalServerError("Column(s) ['id'] do not exist")) /\ UNCHANGED locals
       ELSE /\ locals' = Assign(locals, "client_summary", client_summary_of(locals.df.rows))
            /\ pc' = "count"
            /\ UNCHANGED response
    /\ UNCHANGED event

\* lines 79-87
CountAndBucket ==
    /\ pc = "count"
    /\ LET df == [columns |-> locals.df.columns \cup {"day_of_week", "hour_of_day"},
                  rows |-> [i \in 1..Len(locals.df.rows) |-> BucketRow(locals.df.rows[i])]]
       IN  locals' = Assign(Assign(Assign(Assign(locals,
                        "unique_active_clients", nunique_clients(locals.df.rows, "active")),
                        "unique_inactive_clients", nunique_clients(locals.df.rows, "inactive")),
                        "df", df),
                        "checkins_by_day_time", checkins_by_day_time_of(df.rows))
    /\ pc' = "respond"
    /\ UNCHANGED <<event, response>>

\* lines 90-110
Respond ==
    /\ pc = "respond"
    /\ LET average_duration_overall == average_duration_overall_of(locals)
           average_total_checkins_overall == average_total_checkins_overall_of(locals)
       IN  /\ locals' = Assign(Assign(locals,
                           "average_duration_overall", average_duration_overall),
                           "average_total_checkins_overall", average_total_checkins_overall)
           /\ Return([statusCode |-> 200,
                      body |-> [client_summary |-> locals.client_summary,
                                checkins_by_day_time |-> locals.checkins_by_day_time,
                                unique_active_clients |-> locals.unique_active_clients,
                                unique_inactive_clients |-> locals.unique_inactive_clients,
                                average_duration_overall |-> average_duration_overall,
                                average_total_checkins_overall |-> average_total_checkins_overall,
                                message |-> <<"CSV file processed successfully">>]])
    /\ UNCHANGED event

Next ==
    \/ CheckMethod
    \/ CheckContentType
    \/ DecodeBody
    \/ FindFilePart
    \/ CheckColumns
    \/ ParseDates
    \/ Summarize
    \/ CountAndBucket
    \/ Respond

Spec == Init /\ [][Next]_vars


(***************************************************************************)
(* The properties.  They speak of the uploaded table as the event carries  *)
(* it and of the response, not of the handler's intermediate values.       *)
(***************************************************************************)
Finished == pc = "done"

Succeeded == Finished /\ response.statusCode = 200

\* the handler has read a table from the upload
Uploaded == "df" \in DOMAIN locals

InputTable == FilePart(event.body.parts).table

InputRows == InputTable.rows

InputColumns == InputTable.columns

AbsentRequired == SeqToSet(RequiredColumns) \ InputColumns

HasRequired == AbsentRequired = {}

IsTimestamp(text) == text \in IsoTexts

TimestampsParse ==
    \A i \in 1..Len(InputRows) :
        /\ InputRows[i].startDate = "" \/ IsTimestamp(InputRows[i].startDate)
        /\ InputRows[i].endDate = "" \/ IsTimestamp(InputRows[i].endDate)

AggregateNames ==
    {"client_summary", "checkins_by_day_time", "unique_active_clients",
     "unique_inactive_clients", "average_duration_overall", "average_total_checkins_overall"}

OnlyMessage == DOMAIN response.body = {"message"}

RowsOfPair(c, n) == {i \in 1..Len(InputRows) : InputRows[i].clientId = c /\ InputRows[i].name = n}

InputPairs == {<<InputRows[i].clientId, InputRows[i].name>> : i \in 1..Len(InputRows)}

RECURSIVE SumOf(_, _)
SumOf(s, field) == IF s = <<>> THEN 0 ELSE Head(s)[field] + SumOf(Tail(s), field)

\* C1: a table that lacks required columns is answered with status 400 and the
\* message "Missing required columns" listing exactly the absent required
\* columns, each once; the table is left as uploaded (no timestamp is parsed,
\* no column derived) and no aggregate is computed before the response.
C1_MissingColumnsRejected ==
    (Uploaded /\ ~HasRequired) =>
        /\ pc \in {"check_columns", "done"}
        /\ locals.df = InputTable
        /\ DOMAIN locals \cap AggregateNames = {}
        /\ Finished =>
              /\ response.statusCode = 400
              /\ OnlyMessage
              /\ Len(response.body.message) = 2
              /\ response.body.message[1] = "Missing required columns: "
              /\ SeqToSet(response.body.message[2]) = AbsentRequired
              /\ Len(response.body.message[2]) = Cardinality(AbsentRequired)

\* C1 witness: the table without endDate, whose only row has an unparsable
\* startDate, is answered with exactly ["endDate"].
C1_Witness ==
    /\ Finished
    /\ Uploaded
    /\ InputColumns = AllColumns \ {"endDate"}
    /\ Len(InputRows) = 1
    /\ InputRows[1].startDate = "yesterday"
    /\ response = Resp(400, <<"Missing required columns: ", <<"endDate">> >>)

\* C1 second case: two required columns absent.
C1_WitnessTwoAbsent ==
    /\ Finished
    /\ Uploaded
    /\ response = Resp(400, <<"Missing required columns: ", <<"status", "name">> >>)

\* C2 (as claimed): a table with the five required columns, whose timestamps all
\* parse, is answered with status 200 and one ClientSummary per distinct
\* (clientId, name) pair; the two-row example of client (1, "A") gives one
\* summary with total_checkins 2, average_duration 37.5, status "active",
\* unique_active_clients 1 and unique_inactive_clients 0.
C2_FiveColumnsSuffice ==
    (Finished /\ Uploaded /\ HasRequired /\ TimestampsParse) =>
        /\ response.statusCode = 200
        /\ Len(response.body.client_summary) = Cardinality(InputPairs)
        /\ InputRows = Table(InputColumns, ExampleRows).rows =>
              /\ Len(response.body.client_summary) = 1
              /\ response.body.client_summary[1].total_checkins = 2
              /\ response.body.client_summary[1].average_duration = <<75, 2>>
              /\ response.body.client_summary[1].status = "active"
              /\ response.body.unique_active_clients = 1
              /\ response.body.unique_inactive_clients = 0

\* C3 (as claimed): in a successful response every ClientSummary's total_checkins
\* is the number of input rows with its (clientId, name) pair, and the
\* total_checkins of all summaries sum to the number of input rows.
C3_TotalCheckinsCountRows ==
    Succeeded =>
        /\ \A i \in 1..Len(response.body.client_summary) :
              LET cs == response.body.client_summary[i]
              IN  cs.total_checkins = Cardinality(RowsOfPair(cs.clientId, cs.name))
        /\ SumOf(response.body.client_summary, "total_checkins") = Len(InputRows)


\* the clientId values (missing cells apart) of the input rows with a status
ClientsWithStatus(st) ==
    {InputRows[i].clientId : i \in {j \in 1..Len(InputRows) : InputRows[j].status = st}} \ {NaN}

DistinctClients == {InputRows[i].clientId : i \in 1..Len(InputRows)} \ {NaN}

\* C4 (as claimed): in a successful response unique_active_clients +
\* unique_inactive_clients is at most the number of distinct clientId values
\* of the input.
C4_ActivePlusInactiveBounded ==
    Succeeded =>
        response.body.unique_active_clients + response.body.unique_inactive_clients
            <= Cardinality(DistinctClients)

\* C4 (amended): unique_active_clients (unique_inactive_clients) is the number
\* of distinct clientId values among the rows with status "active"
\* ("inactive"), rows with any other status counting in neither; each of the
\* two is at most the number of distinct clientId values, and their sum
\* exceeds that number by at most the number of clients that have both an
\* active and an inactive row.
C4_ActiveInactiveCounts ==
    Succeeded =>
        /\ response.body.unique_active_clients = Cardinality(ClientsWithStatus("active"))
        /\ response.body.unique_inactive_clients = Cardinality(ClientsWithStatus("inactive"))
        /\ response.body.unique_active_clients <= Cardinality(DistinctClients)
        /\ response.body.unique_inactive_clients <= Cardinality(DistinctClients)
        /\ response.body.unique_active_clients + response.body.unique_inactive_clients
              <= Cardinality(DistinctClients)
                   + Cardinality(ClientsWithStatus("active") \cap ClientsWithStatus("inactive"))

\* C4 witness: a client with two active rows and one inactive row is counted
\* once as active and once as inactive.
C4_Witness ==
    /\ Succeeded
    /\ Len(InputRows) = 3
    /\ DistinctClients = {1}
    /\ Cardinality({i \in 1..3 : InputRows[i].status = "active"}) = 2
    /\ response.body.unique_active_clients = 1
    /\ response.body.unique_inactive_clients = 1

\* the rows of the input whose startDate is not missing, and the bucket of a row
RowsWithStart == {i \in 1..Len(InputRows) : InputRows[i].startDate # ""}

BucketOf(i) ==
    LET ts == tz_convert(to_datetime(InputRows[i].startDate))
    IN  <<day_name(ts), hour(ts)[1]>>

\* C5 (as claimed): in a successful response the checkin_count of the emitted
\* buckets sum to the number of input rows.
C5_BucketsSumToRows ==
    Succeeded => SumOf(response.body.checkins_by_day_time, "checkin_count") = Len(InputRows)

\* C5 (amended): the checkin_count of the emitted buckets sum to the number of
\* input rows whose startDate is not missing; every such row is counted in
\* exactly one bucket, that of its local weekday and hour, a row with a missing
\* startDate in none, and no bucket is emitted with count 0.
C5_BucketsSumToRowsWithStart ==
    Succeeded =>
        LET buckets == response.body.checkins_by_day_time
            KeyAt(b) == <<buckets[b].day_of_week, buckets[b].hour_of_day>>
        IN  /\ SumOf(buckets, "checkin_count") = Cardinality(RowsWithStart)
            /\ \A b \in 1..Len(buckets) :
                  /\ buckets[b].checkin_count >= 1
                  /\ buckets[b].checkin_count
                        = Cardinality({i \in RowsWithStart : BucketOf(i) = KeyAt(b)})
            /\ \A i \in RowsWithStart :
                  Cardinality({b \in 1..Len(buckets) : KeyAt(b) = BucketOf(i)}) = 1

\* C5 witness: three rows, one without startDate, the others in two buckets.
C5_Witness ==
    /\ Succeeded
    /\ Len(InputRows) = 3
    /\ Cardinality(RowsWithStart) = 2
    /\ Len(response.body.checkins_by_day_time) = 2
    /\ SumOf(response.body.checkins_by_day_time, "checkin_count") = 2

\* C5 second case: two rows of one client in one bucket, a row of the previous
\* local day (02:00 UTC is 22:00 on Sunday) in another.
C5_WitnessSharedBucket ==
    /\ Succeeded
    /\ Len(InputRows) = 3
    /\ \E b \in 1..Len(response.body.checkins_by_day_time) :
          response.body.checkins_by_day_time[b]
              = [day_of_week |-> "Monday", hour_of_day |-> 6, checkin_count |-> 2]
    /\ \E b \in 1..Len(response.body.checkins_by_day_time) :
          response.body.checkins_by_day_time[b]
              = [day_of_week |-> "Sunday", hour_of_day |-> 22, checkin_count |-> 1]

\* C6 (as claimed): when a startDate or endDate cannot be parsed the response
\* has status 400 and carries none of the aggregate fields.
C6_BadDateIs400 ==
    (Finished /\ Uploaded /\ HasRequired /\ ~TimestampsParse) =>
        /\ response.statusCode = 400
        /\ OnlyMessage

\* C6 (amended): when a startDate or endDate cannot be parsed the whole request
\* fails in the handler's generic-exception path, with status 500 and the
\* message "Internal server error" followed by the parser's description; the
\* response carries none of the aggregate fields and no aggregate was computed.
C6_BadDateIs500 ==
    (Uploaded /\ HasRequired /\ ~TimestampsParse) =>
        /\ pc \in {"check_columns", "parse_dates", "done"}
        /\ DOMAIN locals \cap AggregateNames = {}
        /\ Finished =>
              /\ response.statusCode = 500
              /\ OnlyMessage
              /\ response.body.message[1] = "Internal server error: "
              /\ response.body.message[2] # ""

\* C6 witness: three rows, the first two well formed, the last with an
\* unparsable endDate.
C6_Witness ==
    /\ Finished
    /\ Uploaded
    /\ HasRequired
    /\ Len(InputRows) = 3
    /\ IsTimestamp(InputRows[1].startDate) /\ IsTimestamp(InputRows[1].endDate)
    /\ IsTimestamp(InputRows[2].startDate) /\ IsTimestamp(InputRows[2].endDate)
    /\ InputRows[3].endDate = "soon"
    /\ response.statusCode = 500


(***************************************************************************)
(* C7: the classification of an event, read off the event alone.           *)
(***************************************************************************)
HeaderSet(e, name) == name \in DOMAIN e.headers /\ e.headers[name] # ""

ContentTypeMissing(e) == ~HeaderSet(e, "Content-Type") /\ ~HeaderSet(e, "content-type")

ContentTypeOf(e) ==
    IF HeaderSet(e, "Content-Type") THEN e.headers["Content-Type"]
    ELSE IF HeaderSet(e, "content-type") THEN e.headers["content-type"]
    ELSE ""

FileParts(e) == {i \in 1..Len(e.body.parts) : e.body.parts[i].disposition = FileDisposition}

\* the parts the loop looks at: up to the first file part
Examined(e) ==
    {i \in 1..Len(e.body.parts) : \A j \in FileParts(e) : i <= j}

FirstFile(e) == e.body.parts[CHOOSE i \in FileParts(e) : \A j \in FileParts(e) : i <= j]

\* the failures the handler has no guard for: a body or content type that is not
\* multipart, a part without Content-Disposition, an empty file
FailsBeforeTable(e) ==
    \/ ~e.body.decodable
    \/ ContentTypeOf(e) # Multipart
    \/ \E i \in Examined(e) : e.body.parts[i].disposition = ""
    \/ FileParts(e) # {} /\ FirstFile(e).kind = "empty"

\* an unparsable timestamp, or the 'id' column the aggregation reads absent
FailsAfterColumns(e) ==
    \/ \E i \in 1..Len(FirstFile(e).table.rows) :
          \/ ~(FirstFile(e).table.rows[i].startDate = "" \/ IsTimestamp(FirstFile(e).table.rows[i].startDate))
          \/ ~(FirstFile(e).table.rows[i].endDate = "" \/ IsTimestamp(FirstFile(e).table.rows[i].endDate))
    \/ "id" \notin FirstFile(e).table.columns

ExpectedStatus(e) ==
    IF e.httpMethod # "POST" THEN 405
    ELSE IF ContentTypeMissing(e) THEN 400
    ELSE IF FailsBeforeTable(e) THEN 500
    ELSE IF FileParts(e) = {} THEN 400
    ELSE IF FirstFile(e).kind = "malformed" THEN 400
    ELSE IF ~(SeqToSet(RequiredColumns) \subseteq FirstFile(e).table.columns) THEN 400
    ELSE IF FailsAfterColumns(e) THEN 500
    ELSE 200

ExpectedMessage(e) ==
    IF e.httpMethod # "POST" THEN "Method Not Allowed"
    ELSE IF ContentTypeMissing(e) THEN "Content-Type header is missing"
    ELSE IF FailsBeforeTable(e) THEN "Internal server error: "
    ELSE IF FileParts(e) = {} THEN "No CSV file found in the request"
    ELSE IF FirstFile(e).kind = "malformed"
         THEN "Error parsing CSV file. Please check the file format."
    ELSE IF ~(SeqToSet(RequiredColumns) \subseteq FirstFile(e).table.columns)
         THEN "Missing required columns: "
    ELSE IF FailsAfterColumns(e) THEN "Internal server error: "
    ELSE "CSV file processed successfully"

\* the positions before the response; the step of a position has no other guard
Steps ==
    {"check_method", "content_type", "decode", "find_file", "check_columns",
     "parse_dates", "summarize", "count", "respond"}

\* C7: the handler answers every event (before the response it is at a step
\* that can be taken, and has answered nothing yet),
\* and the response is that of the first guard that fails: 405 for a method
\* other than POST whatever the headers and the body; else 400 for a missing
\* Content-Type; else 400 when no file part is found; else 400 for a malformed
\* CSV or missing required columns; 200 for a completed aggregation; and 500,
\* with the failure's description in the message, for any failure the handler
\* has no guard for, at the step where it is raised.
C7_ResponseClassification ==
    /\ ~Finished => pc \in Steps /\ response = NoResponse
    /\ Finished =>
          /\ response.statusCode = ExpectedStatus(event)
          /\ response.body.message[1] = ExpectedMessage(event)
          /\ response.statusCode = 500 =>
                Len(response.body.message) = 2 /\ response.body.message[2] # ""
          /\ response.statusCode = 200 <=> AggregateNames \subseteq DOMAIN locals
          /\ response.statusCode # 200 => OnlyMessage

\* C7 witness: a GET request with a multipart content type and a well-formed
\* upload is answered 405.
C7_Witness ==
    /\ Finished
    /\ event.httpMethod = "GET"
    /\ ContentTypeOf(event) = Multipart
    /\ ~FailsBeforeTable(event)
    /\ FileParts(event) # {}
    /\ ExpectedStatus(Event("POST", event.headers, event.body)) = 200
    /\ response = Resp(405, <<"Method Not Allowed">>)

\* C7 second case: a POST with the lower-case header alone, whose body has a
\* text field and no file part, is answered 400.
C7_WitnessNoFile ==
    /\ Finished
    /\ event.httpMethod = "POST"
    /\ DOMAIN event.headers = {"content-type"}
    /\ Len(event.body.parts) = 1
    /\ response = Resp(400, <<"No CSV file found in the request">>)

\* C8 (as claimed): a table with the required columns and no rows is answered
\* with status 200, empty client_summary and checkins_by_day_time, both counts
\* 0 and both overall averages undefined.
C8_EmptyInputSucceeds ==
    (Finished /\ Uploaded /\ HasRequired /\ InputRows = <<>>) =>
        /\ response.statusCode = 200
        /\ response.body.client_summary = <<>>
        /\ response.body.checkins_by_day_time = <<>>
        /\ response.body.unique_active_clients = 0
        /\ response.body.unique_inactive_clients = 0
        /\ response.body.average_duration_overall = NA
        /\ response.body.average_total_checkins_overall = NA

\* the rows of a summary's group, in input order, and those with a status
GroupRows(cs) == RowsOfPair(cs.clientId, cs.name)

GroupRowsWithStatus(cs) == {i \in GroupRows(cs) : InputRows[i].status # ""}

MaxIndex(S) == CHOOSE i \in S : \A j \in S : j <= i

StartOf(i) == to_datetime(InputRows[i].startDate)

\* C9 (as claimed): every ClientSummary's status is the status of the last row
\* of its group in input order, whatever that status is.
C9_StatusOfLastRow ==
    Succeeded =>
        \A k \in 1..Len(response.body.client_summary) :
            LET cs == response.body.client_summary[k]
            IN  cs.status = InputRows[MaxIndex(GroupRows(cs))].status

\* C9 (amended): every ClientSummary's status is the status of the last row, in
\* input order and whatever the startDate values are, among the rows of its
\* group whose status is not missing; it is missing when every status of the
\* group is.
C9_StatusOfLastRowWithStatus ==
    Succeeded =>
        \A k \in 1..Len(response.body.client_summary) :
            LET cs == response.body.client_summary[k]
            IN  IF GroupRowsWithStatus(cs) = {}
                THEN cs.status = ""
                ELSE cs.status = InputRows[MaxIndex(GroupRowsWithStatus(cs))].status

\* C9 witness: a group whose rows are, in input order, an active row of
\* 2024-01-02, an inactive row of 2024-01-01 and a row without status: the
\* summary's status is "inactive".
C9_Witness ==
    /\ Succeeded
    /\ Len(InputRows) = 3
    /\ Len(response.body.client_summary) = 1
    /\ InputRows[1].status = "active"
    /\ InputRows[2].status = "inactive"
    /\ InputRows[3].status = ""
    /\ StartOf(1) # NA /\ StartOf(2) # NA
    /\ StartOf(2)[1] < StartOf(1)[1]
    /\ response.body.client_summary[1].total_checkins = 3
    /\ response.body.client_summary[1].status = "inactive"

\* the summaries whose average_duration is defined
WithAverage(summaries) == SelectSeq(summaries, LAMBDA cs : cs.average_duration # NA)

RECURSIVE SumOfAverages(_)
SumOfAverages(summaries) ==
    IF summaries = <<>> THEN <<0, 1>>
    ELSE FracAdd(Head(summaries).average_duration, SumOfAverages(Tail(summaries)))

\* a = b * n for the fractions a, b and the number n
IsProduct(a, b, n) == a[1] * b[2] = b[1] * n * a[2]

====
